---- MODULE Spec2Model ----
(***************************************************************************)
(* Security core of the Hublievents backend: token service (auth/jwt.py),  *)
(* principal record (models/user.py), audit log (models/admin_log.py) and  *)
(* the authentication routes (routes/auth.py).                             *)
(*                                                                         *)
(* Modelling conventions                                                   *)
(*  - Time is the wall clock in whole seconds (the resolution of the JWT   *)
(*    exp claim).                                                          *)
(*  - A JWT is a record of its claims plus `sig`, the key that signed it.  *)
(*    Two tokens with the same claims and key are the same string, as with *)
(*    HS256.                                                               *)
(*  - The credential hasher is modelled by its contract: verify(s, h)      *)
(*    holds exactly when h was produced from s.                            *)
(*  - The storage layer (SQLAlchemy session, mapping, SQL clock) is a      *)
(*    collaborator: a query returns the matching row, commit makes the     *)
(*    pending writes durable, db.func.now() reads the clock.               *)
(*  - An exception that no handler catches is the framework's 500 answer.  *)
(***************************************************************************)
EXTENDS Integers, Sequences, FiniteSets, TLC

VARIABLES
    users,       \* principal table: id -> row
    admin_logs,  \* audit table, in insertion order
    now,         \* wall clock, seconds
    ticks,       \* number of clock advances so far
    issued,      \* issuance records of the tokens handed to clients
    resp,        \* the answer to the latest request
    revoked,     \* principals revoked (logout / password change) since their last login
    request,     \* the latest request a gated route or the CSRF guard received
    csrf_tokens, \* the CSRF tokens the guard has minted, with session and time
    reset_tokens \* the password-reset tokens made so far, with principal and time

vars == <<users, admin_logs, now, ticks, issued, resp, revoked, request, csrf_tokens,
          reset_tokens>>

----------------------------------------------------------------------------
(* Bounds of the exploration *)

MaxUsers == 2
MaxTicks == 2
MaxLogs  == 2
MaxLogins == 2
MaxCsrfTokens == 1
MaxResets == 2

(* Program constants *)

JWT_ACCESS_TOKEN_EXPIRE_MINUTES == 30
JWT_REFRESH_TOKEN_EXPIRE_DAYS   == 7
LoginRefreshDays                == 7
SecondsPerMinute                == 60
SecondsPerDay                   == 86400
PasswordResetHours              == 24
SecondsPerHour                  == 3600

UserIds == 1..MaxUsers
Emails  == 1..MaxUsers          \* e-mail addresses, one candidate per principal slot

UserRole == {"guest", "customer", "admin", "super_admin"}

ServerKey   == "JWT_SECRET_KEY"
AttackerKey == "other-key"

None   == [none |-> TRUE]       \* Python None where a record is expected
NoTime == -1                    \* NULL in a timestamp column
NoSub  == 0                     \* a payload that carries no "sub" claim
Never  == -1                    \* requested ttl absent (expires_delta = None)

----------------------------------------------------------------------------
(* Credential hasher: passlib CryptContext(schemes=["bcrypt"]) *)

pwd_hash(secret) == [bcrypt |-> secret]

pwd_verify(secret, hashed) == hashed = [bcrypt |-> secret]

----------------------------------------------------------------------------
(* models/user.py *)

is_admin(user) == user.role \in {"admin", "super_admin"}

is_super_admin(user) == user.role = "super_admin"

set_password(user, password) == [user EXCEPT !.password_hash = pwd_hash(password)]

verify_password(user, password) == pwd_verify(password, user.password_hash)

set_refresh_token(user, token, expires_at) ==
    [user EXCEPT !.refresh_token_hash = pwd_hash(token),
                 !.refresh_token_expires = expires_at]

verify_refresh_token(user, token) ==
    IF user.refresh_token_hash = None \/ user.refresh_token_expires = NoTime
    THEN FALSE
    ELSE pwd_verify(token, user.refresh_token_hash)

\* A clear_refresh_token that forgets to empty the two columns.
clear_refresh_token_keeps(user) == user

clear_refresh_token(user) ==
    [user EXCEPT !.refresh_token_hash = None,
                 !.refresh_token_expires = NoTime]

----------------------------------------------------------------------------
(* auth/jwt.py: token creation and verification *)

\* jwt.encode: the claims, signed with the server key.
jwt_encode(claims) == [claims |-> claims, sig |-> ServerKey]

Malformed == [malformed |-> TRUE]

\* jwt.decode: DecodeError for a malformed string, InvalidSignatureError for a
\* foreign key, ExpiredSignatureError once exp <= now; None stands for PyJWTError.
jwt_decode(token, t) ==
    IF token = Malformed THEN None
    ELSE IF token.sig # ServerKey THEN None
    ELSE IF token.claims.exp <= t THEN None
    ELSE token.claims

\* A create_access_token that does not copy the subject into the claims.
create_access_token_no_sub(data, expires_delta, t) ==
    jwt_encode([sub |-> NoSub, email |-> data.email, role |-> data.role,
                exp |-> t + JWT_ACCESS_TOKEN_EXPIRE_MINUTES * SecondsPerMinute,
                type |-> "access"])

\* `if expires_delta:` takes the default branch for None and for a zero timedelta.
create_access_token(data, expires_delta, t) ==
    LET expire == IF expires_delta # Never /\ expires_delta # 0
                  THEN t + expires_delta
                  ELSE t + JWT_ACCESS_TOKEN_EXPIRE_MINUTES * SecondsPerMinute
    IN  jwt_encode([sub |-> data.sub, email |-> data.email, role |-> data.role,
                    exp |-> expire, type |-> "access"])

create_refresh_token(data, t) ==
    LET expire == t + JWT_REFRESH_TOKEN_EXPIRE_DAYS * SecondsPerDay
    IN  jwt_encode([sub |-> data.sub, exp |-> expire, type |-> "refresh"])

\* A verify_token that consults a working blacklist: the tokens of a principal
\* that logged out are rejected.
verify_token_blacklisted(token, token_type, t) ==
    LET payload == jwt_decode(token, t)
    IN  IF payload = None THEN None
        ELSE IF payload.type # token_type THEN None
        ELSE IF payload.sub \in revoked THEN None
        ELSE payload

\* A verify_token that does not compare the type claim.
verify_token_any_type(token, token_type, t) == jwt_decode(token, t)

verify_token(token, token_type, t) ==
    LET payload == jwt_decode(token, t)
    IN  IF payload = None THEN None
        ELSE IF payload.type # token_type THEN None
        ELSE IF payload.exp < t THEN None
        ELSE payload

\* HTTPBearer(auto_error=False): no Authorization header gives credentials None.
get_token_payload(credentials, t) ==
    IF credentials = None THEN None ELSE verify_token(credentials, "access", t)

create_token_pair(uid, user, t) ==
    [access_token  |-> create_access_token(
                           [sub |-> uid, email |-> user.email, role |-> user.role],
                           Never, t),
     refresh_token |-> create_refresh_token([sub |-> uid], t),
     token_type    |-> "bearer"]

refresh_access_token(refresh_token, db, t) ==
    LET payload == verify_token(refresh_token, "refresh", t)
    IN  IF payload = None THEN None
        ELSE IF payload.sub = NoSub THEN None
        ELSE IF payload.sub \notin DOMAIN db THEN None
        ELSE IF ~verify_refresh_token(db[payload.sub], refresh_token) THEN None
        ELSE create_token_pair(payload.sub, db[payload.sub], t)

----------------------------------------------------------------------------
(* models/admin_log.py: the audit write entry point *)

AdminAction ==
    {"user_created", "user_updated", "user_deleted", "user_role_changed",
     "user_banned", "user_unbanned",
     "design_approved", "design_rejected", "design_deleted",
     "enquiry_assigned", "enquiry_status_changed", "enquiry_updated",
     "enquiry_deleted",
     "gallery_image_uploaded", "gallery_image_approved",
     "gallery_image_rejected", "gallery_image_deleted",
     "system_config_changed", "backup_created", "login_attempt",
     "security_alert"}

risk_levels ==
    [low      |-> {"gallery_image_uploaded", "login_attempt"},
     medium   |-> {"user_updated", "enquiry_status_changed", "gallery_image_approved"},
     high     |-> {"user_deleted", "user_banned", "design_deleted", "enquiry_deleted"},
     critical |-> {"user_role_changed", "system_config_changed", "security_alert"}]

risk_level_of(action) ==
    IF action \in risk_levels.low THEN "low"
    ELSE IF action \in risk_levels.medium THEN "medium"
    ELSE IF action \in risk_levels.high THEN "high"
    ELSE IF action \in risk_levels.critical THEN "critical"
    ELSE "medium"

\* The keyword parameters log_action declares; a call that passes any other
\* keyword raises TypeError before the body runs.
log_action_params ==
    {"db", "admin_id", "action", "resource_type", "resource_id", "old_values",
     "new_values", "changes", "notes", "metadata", "ip_address", "user_agent",
     "session_id"}

log_action_binds(kwargs) == kwargs \subseteq log_action_params

\* A log_action that keeps the newest entry only.
log_action_replacing(logs, admin_id, action, resource_type, resource_id, notes) ==
    <<[admin_id      |-> admin_id,
       action        |-> action,
       resource_type |-> resource_type,
       resource_id   |-> resource_id,
       notes         |-> notes,
       risk_level    |-> risk_level_of(action)]>>

log_action(logs, admin_id, action, resource_type, resource_id, notes) ==
    Append(logs, [admin_id      |-> admin_id,
                  action        |-> action,
                  resource_type |-> resource_type,
                  resource_id   |-> resource_id,
                  notes         |-> notes,
                  risk_level    |-> risk_level_of(action)])

\* auth/dependencies.py: AdminAction(action) raises ValueError for a string
\* that names no member, and the entry is then written as a security alert.
log_admin_action(logs, action, resource_type, resource_id, notes, current_user) ==
    LET action_enum == IF action \in AdminAction THEN action ELSE "security_alert"
    IN  log_action(logs, current_user, action_enum, resource_type, resource_id, notes)

----------------------------------------------------------------------------
(* auth/jwt.py: the authorization gate.  A gate result carries the status it *)
(* raises (200 when it returns the user), the user id and the audit table as *)
(* the gate leaves it (log_action commits before the gate goes on).          *)

GateResult(status, detail, uid, logs) ==
    [status |-> status, detail |-> detail, uid |-> uid, logs |-> logs]

NoUid == 0

\* models/user.py, models/admin_log.py: what the mapping declares for the
\* removal of a users row.  User.admin_logs is declared with
\* cascade="all, delete-orphan": a Session.delete(user) deletes the entries of
\* the relationship with the row.  admin_logs.admin_id is declared
\* ForeignKey(ondelete="SET NULL"): a DELETE the database carries out by
\* itself sets the column of those entries to NULL.
IsNotOf(admin_id, entry) == entry.admin_id # admin_id

SetNull(logs, admin_id) ==
    [i \in DOMAIN logs |->
        IF logs[i].admin_id = admin_id THEN [logs[i] EXCEPT !.admin_id = NoUid]
        ELSE logs[i]]

delete_cascade(logs, admin_id, how) ==
    IF how = "Session.delete"
    THEN SelectSeq(logs, LAMBDA entry : IsNotOf(admin_id, entry))
    ELSE SetNull(logs, admin_id)

\* A get_current_user that writes its audit entry for every resolved principal.
get_current_user_logging_all(credentials, db, logs, t) ==
    LET payload == get_token_payload(credentials, t)
    IN  IF payload = None
        THEN GateResult(401, "Invalid authentication credentials", NoUid, logs)
        ELSE IF payload.sub = NoSub
        THEN GateResult(401, "Invalid token payload", NoUid, logs)
        ELSE IF payload.sub \notin DOMAIN db
        THEN GateResult(401, "User not found", NoUid, logs)
        ELSE GateResult(200, "", payload.sub,
                        log_action(logs, payload.sub, "login_attempt", "user",
                                   payload.sub, "User authenticated via JWT token"))

get_current_user(credentials, db, logs, t) ==
    LET payload == get_token_payload(credentials, t)
    IN  IF payload = None
        THEN GateResult(401, "Invalid authentication credentials", NoUid, logs)
        ELSE IF payload.sub = NoSub
        THEN GateResult(401, "Invalid token payload", NoUid, logs)
        ELSE IF payload.sub \notin DOMAIN db
        THEN GateResult(401, "User not found", NoUid, logs)
        ELSE IF is_admin(db[payload.sub])
        THEN GateResult(200, "", payload.sub,
                        log_action(logs, payload.sub, "login_attempt", "user",
                                   payload.sub, "User authenticated via JWT token"))
        ELSE GateResult(200, "", payload.sub, logs)

\* Line 182 evaluates `User.UserRole.GUEST` whenever is_verified is false; the
\* class User has no attribute UserRole, so that evaluation raises
\* AttributeError, which the framework answers with 500.
get_current_active_user(credentials, db, logs, t) ==
    LET g == get_current_user(credentials, db, logs, t)
    IN  IF g.status # 200 THEN g
        ELSE IF ~db[g.uid].is_active
        THEN GateResult(403, "User account is disabled", g.uid, g.logs)
        ELSE IF ~db[g.uid].is_verified
        THEN GateResult(500, "Internal Server Error", g.uid, g.logs)
        ELSE g

require_admin(credentials, db, logs, t) ==
    LET g == get_current_active_user(credentials, db, logs, t)
    IN  IF g.status # 200 THEN g
        ELSE IF ~is_admin(db[g.uid])
        THEN GateResult(403, "Admin privileges required", g.uid, g.logs)
        ELSE g

require_super_admin(credentials, db, logs, t) ==
    LET g == require_admin(credentials, db, logs, t)
    IN  IF g.status # 200 THEN g
        ELSE IF ~is_super_admin(db[g.uid])
        THEN GateResult(403, "Super admin privileges required", g.uid, g.logs)
        ELSE g

\* auth/dependencies.py
get_current_admin_user(credentials, db, logs, t) ==
    LET g == get_current_active_user(credentials, db, logs, t)
    IN  IF g.status # 200 THEN g
        ELSE IF ~is_admin(db[g.uid])
        THEN GateResult(403, "Admin privileges required", g.uid, g.logs)
        ELSE g

require_ownership_or_admin(resource_user_id, credentials, db, logs, t) ==
    LET g == get_current_active_user(credentials, db, logs, t)
    IN  IF g.status # 200 THEN g
        ELSE IF g.uid # resource_user_id /\ ~is_admin(db[g.uid])
        THEN GateResult(403, "You don't have permission to access this resource",
                        g.uid, g.logs)
        ELSE g

----------------------------------------------------------------------------
(* auth/password.py and schemas/user.py: the password policy.  The passwords *)
(* the clients type are taken from a small table; a password is described by *)
(* what the policy reads of it.                                              *)

Passwords == {"admin123", "Str0ngP@ss1", "Password1", "Ab1"}

password_shape(password) ==
    CASE password = "admin123" ->
           [len |-> 8, lower |-> TRUE, upper |-> FALSE, digit |-> TRUE,
            lowered |-> "admin123"]
      [] password = "Str0ngP@ss1" ->
           [len |-> 11, lower |-> TRUE, upper |-> TRUE, digit |-> TRUE,
            lowered |-> "str0ngp@ss1"]
      [] password = "Password1" ->
           [len |-> 9, lower |-> TRUE, upper |-> TRUE, digit |-> TRUE,
            lowered |-> "password1"]
      [] password = "Ab1" ->
           [len |-> 3, lower |-> TRUE, upper |-> TRUE, digit |-> TRUE,
            lowered |-> "ab1"]

common_passwords ==
    {"password", "123456", "123456789", "qwerty", "abc123", "password123",
     "admin", "letmein", "welcome", "monkey", "1234567890", "password1",
     "qwerty123", "admin123"}

is_password_compromised(password) ==
    password_shape(password).lowered \in common_passwords

MinPasswordLength == 8

\* validate_password_strength(password)["is_valid"]
validate_password_strength(password) ==
    LET p == password_shape(password)
    IN  /\ ~(p.len < MinPasswordLength)
        /\ p.lower
        /\ p.upper
        /\ p.digit
        /\ ~is_password_compromised(password)

\* The pydantic field and validator of `password` / `new_password`:
\* min_length=8 and at least one digit, one uppercase and one lowercase letter.
schema_password_ok(password) ==
    LET p == password_shape(password)
    IN  p.len >= MinPasswordLength /\ p.digit /\ p.upper /\ p.lower

----------------------------------------------------------------------------
(* routes/auth.py *)

\* The request as the gate and the middleware read it: verb, path, the
\* session_id cookie, the X-CSRF-Token header, the bearer credentials and the
\* owner of the resource the path names, with the clock at its arrival.
Request(method, path, session_id, csrf_token, credentials, resource_user_id, t) ==
    [method |-> method, path |-> path, session_id |-> session_id,
     csrf_token |-> csrf_token, credentials |-> credentials,
     resource_user_id |-> resource_user_id, at |-> t]

NoRequest == Request("", "", None, None, None, NoUid, NoTime)

Response(route, status, detail, presented, uid, access, refresh, token_data) ==
    [route |-> route, status |-> status, detail |-> detail,
     presented |-> presented, uid |-> uid,
     access_token |-> access, refresh_token |-> refresh,
     token_data |-> token_data]

ErrorResponse(route, status, detail, presented, uid) ==
    Response(route, status, detail, presented, uid, None, None, None)

\* db.query(User).filter(User.email == email).first(); NoUid when no row matches.
user_by_email(db, email) ==
    IF \E u \in DOMAIN db : db[u].email = email
    THEN CHOOSE u \in DOMAIN db : db[u].email = email
    ELSE NoUid

\* What the model remembers of a token handed to a client: the token, the
\* principal it was made for (id, e-mail and role at that moment), the clock
\* at creation and the ttl asked for.
Issuance(tok, uid, user, t, ttl) ==
    [tok |-> tok, uid |-> uid, email |-> user.email, role |-> user.role,
     at |-> t, ttl |-> ttl]

PairIssuance(pair, uid, user, t) ==
    {Issuance(pair.access_token, uid, user, t, Never),
     Issuance(pair.refresh_token, uid, user, t, Never)}

IssuedTokens == {r.tok : r \in issued}

IssuedOfType(ty) == {tok \in IssuedTokens : tok.claims.type = ty}

\* The seeding script and the registration route build the row the same way:
\* User(email, full_name, phone, role) and set_password; the column defaults
\* give is_active = True, is_verified = False and NULL token fields.
NewUser(email, password, role, active, verified) ==
    [email |-> email, password_hash |-> pwd_hash(password), role |-> role,
     is_active |-> active, is_verified |-> verified,
     refresh_token_hash |-> None, refresh_token_expires |-> NoTime,
     password_reset_token |-> None, password_reset_expires |-> NoTime,
     last_login |-> NoTime]

\* The autoincrement primary key of the next row.
next_id(db) == Cardinality(DOMAIN db) + 1

\* The fields of the UserCreate body the model keeps.
RegisterBody(email, password, role) ==
    [email |-> email, password |-> password, role |-> role]

\* A register_user that does not ask validate_password_strength.
register_user_unchecked(email, password, role) ==
    LET route == "register"
        uid   == next_id(users)
        user  == NewUser(email, password, role, TRUE, FALSE)
    IN  IF ~schema_password_ok(password)
        THEN /\ resp' = ErrorResponse(route, 422, "Unprocessable Entity",
                                      RegisterBody(email, password, role), NoUid)
             /\ UNCHANGED <<users, admin_logs, issued, revoked>>
        ELSE IF user_by_email(users, email) # NoUid
        THEN /\ resp' = ErrorResponse(route, 409, "User with this email already exists",
                                      RegisterBody(email, password, role), NoUid)
             /\ UNCHANGED <<users, admin_logs, issued, revoked>>
        ELSE /\ uid \in UserIds
             /\ users' = users @@ (uid :> user)
             /\ resp' = ErrorResponse(route, 201, "",
                                      RegisterBody(email, password, role), uid)
             /\ UNCHANGED <<admin_logs, issued, revoked>>

\* The request body is validated by the UserCreate schema (422) before the
\* handler runs; `role` is a field of that schema and is copied to the row.
register_user(email, password, role) ==
    LET route == "register"
        uid   == next_id(users)
    IN  IF ~schema_password_ok(password)
        THEN /\ resp' = ErrorResponse(route, 422, "Unprocessable Entity", RegisterBody(email, password, role), NoUid)
             /\ UNCHANGED <<users, admin_logs, issued, revoked>>
        ELSE IF ~validate_password_strength(password)
        THEN /\ resp' = ErrorResponse(route, 400,
                                      "Password does not meet security requirements",
                                      RegisterBody(email, password, role), NoUid)
             /\ UNCHANGED <<users, admin_logs, issued, revoked>>
        ELSE IF user_by_email(users, email) # NoUid
        THEN /\ resp' = ErrorResponse(route, 409, "User with this email already exists",
                                      RegisterBody(email, password, role), NoUid)
             /\ UNCHANGED <<users, admin_logs, issued, revoked>>
        ELSE LET user == NewUser(email, password, role, TRUE, FALSE)
             IN  /\ uid \in UserIds
                 /\ users' = users @@ (uid :> user)
                 /\ IF is_admin(user)
                    THEN /\ Len(admin_logs) < MaxLogs
                         /\ admin_logs' = log_action(admin_logs, uid, "user_created", "user",
                                                     uid, "User registered as admin")
                    ELSE UNCHANGED admin_logs
                 /\ resp' = ErrorResponse(route, 201, "",
                                          RegisterBody(email, password, role), uid)
                 /\ UNCHANGED <<issued, revoked>>

\* The keywords of the log_action call at lines 143-153.
login_failed_log_kwargs ==
    {"db", "admin_id", "action", "resource_type", "resource_id", "notes",
     "ip_address", "user_agent", "risk_level"}

login_user(email, password) ==
    LET uid == user_by_email(users, email)
    IN  IF uid = NoUid
        THEN /\ resp' = ErrorResponse("login", 401, "Invalid email or password", None, NoUid)
             /\ UNCHANGED <<users, admin_logs, issued, revoked>>
        ELSE IF ~verify_password(users[uid], password)
        THEN IF is_admin(users[uid])
             THEN IF log_action_binds(login_failed_log_kwargs)
                  THEN /\ Len(admin_logs) < MaxLogs
                       /\ admin_logs' = log_action(admin_logs, uid, "login_attempt",
                                                   "user", uid, "Failed login attempt")
                       /\ resp' = ErrorResponse("login", 401, "Invalid email or password", None, uid)
                       /\ UNCHANGED <<users, issued, revoked>>
                  ELSE /\ resp' = ErrorResponse("login", 500, "Internal Server Error", None, uid)
                       /\ UNCHANGED <<users, admin_logs, issued, revoked>>
             ELSE /\ resp' = ErrorResponse("login", 401, "Invalid email or password", None, uid)
                  /\ UNCHANGED <<users, admin_logs, issued, revoked>>
        ELSE IF ~users[uid].is_active
        THEN /\ resp' = ErrorResponse("login", 403, "Account is disabled", None, uid)
             /\ UNCHANGED <<users, admin_logs, issued, revoked>>
        ELSE LET logged  == [users[uid] EXCEPT !.last_login = now]
                 pair    == create_token_pair(uid, logged, now)
                 expires == now + LoginRefreshDays * SecondsPerDay
             IN  /\ pair.refresh_token \in IssuedTokens
                    \/ Cardinality(IssuedOfType("refresh")) < MaxLogins
                 /\ users' = [users EXCEPT
                                ![uid] = set_refresh_token(logged, pair.refresh_token, expires)]
                 /\ issued' = issued \cup PairIssuance(pair, uid, logged, now)
                 /\ revoked' = revoked \ {uid}
                 /\ resp' = Response("login", 200, "", None, uid,
                                     pair.access_token, pair.refresh_token, pair)
                 /\ UNCHANGED admin_logs

\* login_user step by step, for a request that passes its checks: the commit
\* of last_login (line 169), the commit of the refresh hash and expiry of the
\* new pair (lines 172-177), and the response (lines 181-187).  The request in
\* flight keeps the refresh tokens in clients' hands that
\* refresh_access_token accepted when the request arrived.
InFlight(pc, uid, held, pair, t) ==
    [method |-> "POST", path |-> "/api/v1/auth/login", pc |-> pc, uid |-> uid,
     held |-> held, pair |-> pair, at |-> t]

InFlightAt(pcs) == "pc" \in DOMAIN request /\ request.pc \in pcs

login_user_begin(email, password) ==
    LET uid == user_by_email(users, email)
    IN  /\ ~InFlightAt({"logged", "committed"})
        /\ uid # NoUid
        /\ verify_password(users[uid], password)
        /\ users[uid].is_active
        /\ users' = [users EXCEPT ![uid].last_login = now]
        /\ request' = InFlight("logged", uid,
                               {tok \in IssuedOfType("refresh") :
                                    refresh_access_token(tok, users, now) # None},
                               None, now)
        /\ UNCHANGED <<admin_logs, issued, revoked, resp>>

login_user_commit ==
    /\ InFlightAt({"logged"})
    /\ LET uid     == request.uid
           pair    == create_token_pair(uid, users[uid], now)
           expires == now + LoginRefreshDays * SecondsPerDay
       IN  /\ pair.refresh_token \in IssuedTokens
              \/ Cardinality(IssuedOfType("refresh")) < MaxLogins
           /\ users' = [users EXCEPT
                          ![uid] = set_refresh_token(users[uid], pair.refresh_token, expires)]
           /\ request' = [request EXCEPT !.pc = "committed", !.pair = pair]
    /\ UNCHANGED <<admin_logs, issued, revoked, resp>>

login_user_respond ==
    /\ InFlightAt({"committed"})
    /\ LET uid  == request.uid
           pair == request.pair
       IN  /\ issued' = issued \cup PairIssuance(pair, uid, users[uid], now)
           /\ revoked' = revoked \ {uid}
           /\ resp' = Response("login", 200, "", None, uid,
                               pair.access_token, pair.refresh_token, pair)
    /\ request' = [request EXCEPT !.pc = "done"]
    /\ UNCHANGED <<users, admin_logs>>

\* The request ends without its response reaching the client: the connection
\* is lost, or the process stops between two of the steps.
login_user_dropped ==
    /\ InFlightAt({"logged", "committed"})
    /\ request' = [request EXCEPT !.pc = "dropped"]
    /\ resp' = ErrorResponse("login", 0, "no response", None, request.uid)
    /\ UNCHANGED <<users, admin_logs, issued, revoked>>

\* A refresh route that empties the principal's refresh columns when it refuses.
refresh_token_clearing(token) ==
    /\ resp' = ErrorResponse("refresh", 401, "Invalid or expired refresh token",
                             None, NoUid)
    /\ users' = [u \in DOMAIN users |-> clear_refresh_token(users[u])]
    /\ UNCHANGED <<admin_logs, issued, revoked>>

\* refresh_access_token is a plain `def` with no decorator, so it has no
\* attribute __wrapped__: once it has returned a pair, line 211 raises
\* AttributeError and the request is answered with 500.  The pair it created is
\* dropped with the request; nothing was written to the principal.
refresh_token(token) ==
    LET token_data == refresh_access_token(token, users, now)
    IN  IF token_data = None
        THEN /\ resp' = ErrorResponse("refresh", 401, "Invalid or expired refresh token",
                                      None, NoUid)
             /\ UNCHANGED <<users, admin_logs, issued, revoked>>
        ELSE LET uid == token.claims.sub
             IN  /\ resp' = Response("refresh", 500, "Internal Server Error",
                                     token, uid, None, None, token_data)
                 /\ UNCHANGED <<users, admin_logs, issued, revoked>>

logout_user(credentials) ==
    LET g == get_current_active_user(credentials, users, admin_logs, now)
    IN  IF g.status # 200
        THEN /\ Len(g.logs) <= MaxLogs
             /\ admin_logs' = g.logs
             /\ resp' = ErrorResponse("logout", g.status, g.detail, None, g.uid)
             /\ UNCHANGED <<users, issued, revoked>>
        ELSE LET logs == IF is_admin(users[g.uid])
                         THEN log_action(g.logs, g.uid, "login_attempt", "user",
                                         g.uid, "User logged out")
                         ELSE g.logs
             IN  /\ Len(logs) <= MaxLogs
                 /\ users' = [users EXCEPT ![g.uid] = clear_refresh_token(users[g.uid])]
                 /\ admin_logs' = logs
                 /\ revoked' = revoked \cup {g.uid}
                 /\ resp' = ErrorResponse("logout", 200, "Successfully logged out",
                                          None, g.uid)
                 /\ UNCHANGED issued

\* The dependencies are resolved before the body is validated, so the gate's
\* 401/403/500 wins over a 422 for a body the schema rejects.
change_password(credentials, current_password, new_password) ==
    LET g == get_current_active_user(credentials, users, admin_logs, now)
        route == "password/change"
    IN  /\ Len(g.logs) <= MaxLogs
        /\ admin_logs' = g.logs
        /\ UNCHANGED issued
        /\ IF g.status # 200
           THEN /\ resp' = ErrorResponse(route, g.status, g.detail, None, g.uid)
                /\ UNCHANGED <<users, revoked>>
           ELSE IF ~schema_password_ok(new_password)
           THEN /\ resp' = ErrorResponse(route, 422, "Unprocessable Entity", None, g.uid)
                /\ UNCHANGED <<users, revoked>>
           ELSE IF ~verify_password(users[g.uid], current_password)
           THEN /\ resp' = ErrorResponse(route, 400, "Current password is incorrect",
                                         None, g.uid)
                /\ UNCHANGED <<users, revoked>>
           ELSE IF ~validate_password_strength(new_password)
           THEN /\ resp' = ErrorResponse(route, 400,
                                         "New password does not meet security requirements",
                                         None, g.uid)
                /\ UNCHANGED <<users, revoked>>
           ELSE /\ users' = [users EXCEPT ![g.uid] =
                               clear_refresh_token(set_password(users[g.uid], new_password))]
                /\ revoked' = revoked \cup {g.uid}
                /\ resp' = ErrorResponse(route, 200,
                                         "Password changed successfully. Please login again.",
                                         None, g.uid)

\* POST /auth/password-reset/request.  The token is a new
\* secrets.token_urlsafe(32) value, kept in the row with an expiry 24 hours
\* ahead; the answer is the same whether or not the e-mail is registered.
request_password_reset(email) ==
    LET uid         == user_by_email(users, email)
        reset_token == [token_urlsafe |-> Cardinality(reset_tokens) + 1]
        expires_at  == now + PasswordResetHours * SecondsPerHour
    IN  /\ resp' = ErrorResponse("password-reset/request", 200,
                                 "If the email exists, a password reset link has been sent",
                                 None, NoUid)
        /\ UNCHANGED <<admin_logs, issued, revoked>>
        /\ IF uid # NoUid
           THEN /\ Cardinality(reset_tokens) < MaxResets
                /\ users' = [users EXCEPT ![uid].password_reset_token = reset_token,
                                          ![uid].password_reset_expires = expires_at]
                /\ reset_tokens' = reset_tokens \cup
                      {[token |-> reset_token, uid |-> uid, at |-> now, used |-> FALSE]}
           ELSE UNCHANGED <<users, reset_tokens>>

\* The row whose reset token is the presented one and has not expired.
user_by_reset_token(db, token, t) ==
    IF \E u \in DOMAIN db : db[u].password_reset_token = token
                            /\ db[u].password_reset_expires > t
    THEN CHOOSE u \in DOMAIN db : db[u].password_reset_token = token
                                 /\ db[u].password_reset_expires > t
    ELSE NoUid

\* A confirm that leaves the reset token in the row.
confirm_password_reset_keeps_token(token, new_password) ==
    LET route == "password-reset/confirm"
        uid   == user_by_reset_token(users, token, now)
    IN  /\ UNCHANGED <<admin_logs, issued, revoked>>
        /\ IF ~schema_password_ok(new_password) \/ ~validate_password_strength(new_password)
              \/ uid = NoUid
           THEN /\ resp' = ErrorResponse(route, 400, "Invalid or expired reset token",
                                         token, NoUid)
                /\ UNCHANGED <<users, reset_tokens>>
           ELSE /\ users' = [users EXCEPT ![uid] = set_password(users[uid], new_password)]
                /\ reset_tokens' = {IF m.token = token THEN [m EXCEPT !.used = TRUE] ELSE m :
                                        m \in reset_tokens}
                /\ resp' = ErrorResponse(route, 200,
                                         "Password has been reset successfully", token, uid)

\* POST /auth/password-reset/confirm.  reset_tokens keeps which tokens a
\* confirm has accepted.
confirm_password_reset(token, new_password) ==
    LET route == "password-reset/confirm"
        uid   == user_by_reset_token(users, token, now)
    IN  /\ UNCHANGED <<admin_logs, issued, revoked>>
        /\ IF ~schema_password_ok(new_password)
           THEN /\ resp' = ErrorResponse(route, 422, "Unprocessable Entity", token, NoUid)
                /\ UNCHANGED <<users, reset_tokens>>
           ELSE IF ~validate_password_strength(new_password)
           THEN /\ resp' = ErrorResponse(route, 400,
                                         "Password does not meet security requirements",
                                         token, NoUid)
                /\ UNCHANGED <<users, reset_tokens>>
           ELSE IF uid = NoUid
           THEN /\ resp' = ErrorResponse(route, 400, "Invalid or expired reset token",
                                         token, NoUid)
                /\ UNCHANGED <<users, reset_tokens>>
           ELSE /\ users' = [users EXCEPT ![uid] =
                               [set_password(users[uid], new_password) EXCEPT
                                   !.password_reset_token = None,
                                   !.password_reset_expires = NoTime]]
                /\ reset_tokens' = {IF m.token = token THEN [m EXCEPT !.used = TRUE] ELSE m :
                                        m \in reset_tokens}
                /\ resp' = ErrorResponse(route, 200,
                                         "Password has been reset successfully", token, uid)

----------------------------------------------------------------------------
(* Gated routes.  A dependency that raises answers the request with its      *)
(* status and detail and the handler body does not run; the audit entry the  *)
(* gate wrote for an admin is committed by then.                             *)

GatedAnswer(route, g, status, detail) ==
    /\ Len(g.logs) <= MaxLogs
    /\ admin_logs' = g.logs
    /\ resp' = IF g.status # 200
               THEN ErrorResponse(route, g.status, g.detail, None, g.uid)
               ELSE ErrorResponse(route, status, detail, None, g.uid)
    /\ UNCHANGED <<users, issued, revoked>>

\* GET /auth/me returns the principal.
get_current_user_info(credentials) ==
    GatedAnswer("me", get_current_active_user(credentials, users, admin_logs, now),
                200, "")

\* GET /admin/stats: the body reads User.last_login_at, a column the model
\* class does not have; its own `except Exception` answers 500.
get_admin_stats(credentials) ==
    GatedAnswer("admin/stats",
                get_current_admin_user(credentials, users, admin_logs, now),
                500, "Failed to retrieve admin statistics")

\* GET /admin/logs reads the audit table.
get_admin_logs(credentials) ==
    GatedAnswer("admin/logs", require_super_admin(credentials, users, admin_logs, now),
                200, "")

\* POST /admin/settings writes one audit entry and answers.
update_system_settings(credentials) ==
    \E g \in {require_super_admin(credentials, users, admin_logs, now)} :
        LET logs == IF g.status = 200
                    THEN log_action(g.logs, g.uid, "system_config_changed", "system",
                                    NoUid, "System settings updated")
                    ELSE g.logs
        IN  GatedAnswer("admin/settings", [g EXCEPT !.logs = logs],
                        200, "Settings updated successfully")

\* A route that declares require_ownership_or_admin for the resource it names.
owned_resource(resource_user_id, credentials) ==
    GatedAnswer("owned",
                require_ownership_or_admin(resource_user_id, credentials,
                                           users, admin_logs, now),
                200, "")

----------------------------------------------------------------------------
(* security/middleware.py: CSRFMiddleware.  A token is the string            *)
(* "<timestamp>:<hexdigest>"; it is kept as the pair of its two parts, and    *)
(* Unparsable stands for a string without ':' or with a non-numeric first     *)
(* part (ValueError).  The digest of a message under a key is kept as the     *)
(* pair (key, message): two digests are equal exactly when both are.          *)

CsrfKey == "csrf_secret_key"

CSRF_MAX_AGE == 300

exempt_paths == {"/health", "/api/v1/auth/login", "/api/v1/auth/refresh"}

Paths == {"/health", "/healthz", "/api/v1/auth/login", "/api/v1/auth/refresh",
          "/api/v1/auth/register", "/api/v1/auth/logout", "/api/v1/auth/me"}

\* str.startswith over the paths of the model.
startswith(path, prefix) ==
    path = prefix \/ <<path, prefix>> \in {<<"/healthz", "/health">>}

_is_exempt_path(path) == \E exempt_path \in exempt_paths : startswith(path, exempt_path)

hmac_sha256(key, message) == [key |-> key, message |-> message]

Unparsable == [unparsable |-> TRUE]

\* A csrf_token of the JSON body that is no string (a number, a list).
NotAString == [not_a_string |-> TRUE]

_generate_csrf_token(session_id, t) ==
    [timestamp |-> t, signature |-> hmac_sha256(CsrfKey, <<session_id, t>>)]

\* A _verify_csrf_token whose message leaves the session id out.
_verify_csrf_token_any_session(token, session_id, t) ==
    IF token = Unparsable THEN FALSE
    ELSE IF t - token.timestamp > CSRF_MAX_AGE THEN FALSE
    ELSE token.signature.key = CsrfKey /\ token.signature.message[2] = token.timestamp

\* A _verify_csrf_token that rejects from the age of 300 seconds on.
_verify_csrf_token_strict_age(token, session_id, t) ==
    IF token = Unparsable THEN FALSE
    ELSE IF t - token.timestamp >= CSRF_MAX_AGE THEN FALSE
    ELSE token.signature = hmac_sha256(CsrfKey, <<session_id, token.timestamp>>)

_verify_csrf_token(token, session_id, t) ==
    IF token = Unparsable THEN FALSE
    ELSE IF t - token.timestamp > CSRF_MAX_AGE THEN FALSE
    ELSE token.signature = hmac_sha256(CsrfKey, <<session_id, token.timestamp>>)

\* token.split on a value that is no string raises AttributeError, which the
\* except clause of _verify_csrf_token (ValueError, TypeError) lets through.
_verify_csrf_token_raises(token) == token = NotAString

\* The session_id cookie, or a new secrets.token_urlsafe(32) value when the
\* request has none: a value no earlier request was given.
_get_session_id(req) ==
    IF req.session_id # None THEN req.session_id
    ELSE [token_urlsafe |-> Cardinality(csrf_tokens)]

\* GET /health
health_check ==
    /\ resp' = ErrorResponse("health", 200, "healthy", None, NoUid)
    /\ UNCHANGED <<users, admin_logs, issued, revoked>>

\* The router's answer when no route matches the path (404) or the verb (405).
no_route(status, detail) ==
    /\ resp' = ErrorResponse("router", status, detail, None, NoUid)
    /\ UNCHANGED <<users, admin_logs, issued, revoked>>

\* call_next: the routes of main.py behind the middleware.
call_next(req, body) ==
    IF req.path = "/api/v1/auth/login"
    THEN IF req.method = "POST" THEN login_user(body.email, body.password)
         ELSE no_route(405, "Method Not Allowed")
    ELSE IF req.path = "/api/v1/auth/refresh"
    THEN IF req.method = "POST" THEN refresh_token(body.refresh_token)
         ELSE no_route(405, "Method Not Allowed")
    ELSE IF req.path = "/api/v1/auth/register"
    THEN IF req.method = "POST"
         THEN register_user(body.email, body.password, body.role)
         ELSE no_route(405, "Method Not Allowed")
    ELSE IF req.path = "/api/v1/auth/logout"
    THEN IF req.method = "POST" THEN logout_user(req.credentials)
         ELSE no_route(405, "Method Not Allowed")
    ELSE IF req.path = "/api/v1/auth/me"
    THEN IF req.method = "GET" THEN get_current_user_info(req.credentials)
         ELSE no_route(405, "Method Not Allowed")
    ELSE IF req.path = "/health"
    THEN IF req.method = "GET" THEN health_check
         ELSE no_route(405, "Method Not Allowed")
    ELSE no_route(404, "Not Found")

csrf_rejected(error) ==
    /\ resp' = ErrorResponse("csrf", 403, error, None, NoUid)
    /\ UNCHANGED <<users, admin_logs, issued, revoked, csrf_tokens>>

\* An exception that leaves dispatch is answered by the handler for Exception.
general_exception_handler ==
    /\ resp' = ErrorResponse("csrf", 500, "Internal Server Error", None, NoUid)
    /\ UNCHANGED <<users, admin_logs, issued, revoked, csrf_tokens>>

\* After call_next a GET is given a csrf_token cookie for its session.  An
\* exception no handler caught passes through call_next, and the cookie is
\* not set.
set_csrf_cookie(req) ==
    IF req.method = "GET" /\ resp'.detail # "Internal Server Error"
    THEN LET session_id == _get_session_id(req)
             minted == [token |-> _generate_csrf_token(session_id, now),
                        session_id |-> session_id]
         IN  /\ minted \in csrf_tokens \/ Cardinality(csrf_tokens) < MaxCsrfTokens
             /\ csrf_tokens' = csrf_tokens \cup {minted}
    ELSE UNCHANGED csrf_tokens

\* A dispatch that asks for the token on exempt paths too.
dispatch_no_exemption(req, body) ==
    IF req.method \in {"POST", "PUT", "PATCH", "DELETE"} /\ req.csrf_token = None
    THEN csrf_rejected("CSRF token required")
    ELSE IF /\ req.method \in {"POST", "PUT", "PATCH", "DELETE"}
            /\ _verify_csrf_token_raises(req.csrf_token)
    THEN general_exception_handler
    ELSE IF /\ req.method \in {"POST", "PUT", "PATCH", "DELETE"}
            /\ ~_verify_csrf_token(req.csrf_token, _get_session_id(req), now)
    THEN csrf_rejected("CSRF token invalid or expired")
    ELSE call_next(req, body) /\ set_csrf_cookie(req)

dispatch(req, body) ==
    IF _is_exempt_path(req.path)
    THEN call_next(req, body) /\ UNCHANGED csrf_tokens
    ELSE IF req.method \in {"POST", "PUT", "PATCH", "DELETE"} /\ req.csrf_token = None
    THEN csrf_rejected("CSRF token required")
    ELSE IF /\ req.method \in {"POST", "PUT", "PATCH", "DELETE"}
            /\ _verify_csrf_token_raises(req.csrf_token)
    THEN general_exception_handler
    ELSE IF /\ req.method \in {"POST", "PUT", "PATCH", "DELETE"}
            /\ ~_verify_csrf_token(req.csrf_token, _get_session_id(req), now)
    THEN csrf_rejected("CSRF token invalid or expired")
    ELSE call_next(req, body) /\ set_csrf_cookie(req)

----------------------------------------------------------------------------
(* The clients.  A client can present a token it was handed, the same token  *)
(* re-signed with a key of its own, a string that is no JWT, and (the threat *)
(* of a leaked signing key) a correctly signed token whose subject is absent *)
(* or names no principal.                                                    *)

Forged(token) == [token EXCEPT !.sig = AttackerKey]

\* An expiry no run of the model reaches.
FarFuture == (MaxTicks + 1) * JWT_REFRESH_TOKEN_EXPIRE_DAYS * SecondsPerDay

Crafted ==
    {jwt_encode([sub |-> s, exp |-> FarFuture, type |-> ty]) :
        s \in {NoSub, MaxUsers + 1}, ty \in {"access", "refresh"}}

Presentable == IssuedTokens \cup {Forged(tok) : tok \in IssuedTokens} \cup Crafted \cup {Malformed}

\* What a client can send as its bearer credentials: nothing, a string that is
\* no JWT, a token it was handed (access or refresh), an access token re-signed
\* with its own key, and a signed access token with no or an unknown subject.
Bearers ==
    IssuedTokens \cup {Forged(tok) : tok \in IssuedOfType("access")}
                 \cup {tok \in Crafted : tok.claims.type = "access"}
                 \cup {Malformed, None}

----------------------------------------------------------------------------
(* The principal table at start: one row written the way create_admin.py     *)
(* writes it (password set directly, no token fields), with the role and the *)
(* flags the storage layer can hold for it.                                  *)

SeedPassword == "admin123"

Jumps == {1, JWT_ACCESS_TOKEN_EXPIRE_MINUTES * SecondsPerMinute,
          JWT_REFRESH_TOKEN_EXPIRE_DAYS * SecondsPerDay}

Tick(d) ==
    /\ ticks < MaxTicks
    /\ now' = now + d
    /\ ticks' = ticks + 1
    /\ UNCHANGED <<users, admin_logs, issued, resp, revoked, request, csrf_tokens,
                   reset_tokens>>

Init ==
    /\ \E role \in UserRole, active \in BOOLEAN, verified \in BOOLEAN :
          users = [u \in {1} |-> NewUser(1, SeedPassword, role, active, verified)]
    /\ admin_logs = <<>>
    /\ now = 0
    /\ ticks = 0
    /\ issued = {}
    /\ resp = ErrorResponse("none", 0, "", None, NoUid)
    /\ revoked = {}
    /\ request = NoRequest
    /\ csrf_tokens = {}
    /\ reset_tokens = {}

Login == \E email \in Emails, password \in Passwords :
            login_user(email, password) /\ UNCHANGED <<now, ticks, request, csrf_tokens, reset_tokens>>

Refresh == \E token \in Presentable :
            refresh_token(token) /\ UNCHANGED <<now, ticks, request, csrf_tokens, reset_tokens>>

Logout == \E credentials \in Presentable \cup {None} :
            logout_user(credentials) /\ UNCHANGED <<now, ticks, request, csrf_tokens, reset_tokens>>

\* The body is read only once the gate has let the request through, so the
\* passwords are enumerated for those requests alone.
ChangePassword == \E credentials \in Presentable \cup {None} :
            /\ IF get_current_active_user(credentials, users, admin_logs, now).status = 200
               THEN \E current \in {SeedPassword, "Str0ngP@ss1"}, new \in Passwords :
                        change_password(credentials, current, new)
               ELSE change_password(credentials, SeedPassword, SeedPassword)
            /\ UNCHANGED <<now, ticks, request, csrf_tokens, reset_tokens>>

Register == \E email \in Emails, password \in Passwords, role \in UserRole :
            register_user(email, password, role) /\ UNCHANGED <<now, ticks, request, csrf_tokens, reset_tokens>>

Advance == \E d \in Jumps : Tick(d)

\* A request to a gated route, as the gate sees it.
Gated(method, path, credentials, resource_user_id) ==
    /\ request' = Request(method, path, None, None, credentials, resource_user_id, now)
    /\ UNCHANGED <<now, ticks, csrf_tokens, reset_tokens>>

Me == \E credentials \in Bearers :
        /\ get_current_user_info(credentials)
        /\ Gated("GET", "/api/v1/auth/me", credentials, NoUid)

AdminStats == \E credentials \in Bearers :
        /\ get_admin_stats(credentials)
        /\ Gated("GET", "/api/v1/admin/stats", credentials, NoUid)

AdminLogs == \E credentials \in Bearers :
        /\ get_admin_logs(credentials)
        /\ Gated("GET", "/api/v1/admin/logs", credentials, NoUid)

UpdateSystemSettings == \E credentials \in Bearers :
        /\ update_system_settings(credentials)
        /\ Gated("POST", "/api/v1/admin/settings", credentials, NoUid)

OwnedResource == \E credentials \in Bearers, owner \in 1..MaxUsers :
        /\ owned_resource(owner, credentials)
        /\ Gated("GET", "owned", credentials, owner)

\* log_admin_action called by application code for a principal, with an
\* action string of the caller's choice.
AuditStrings ==
    {"user_role_changed", "security_alert", "gallery_image_uploaded",
     "user_created", "user_deleted", "gallery_image_updated"}

LogAdminAction == \E action \in AuditStrings, current_user \in DOMAIN users :
        /\ Len(admin_logs) < MaxLogs
        /\ admin_logs' = log_admin_action(admin_logs, action, "user", current_user,
                                          None, current_user)
        /\ resp' = ErrorResponse("log_admin_action", 200, "", None, current_user)
        /\ UNCHANGED <<users, issued, revoked, now, ticks, request, csrf_tokens,
                       reset_tokens>>

Next == Login \/ Refresh \/ Logout \/ ChangePassword \/ Advance

Spec == Init /\ [][Next]_vars

----------------------------------------------------------------------------
(* The token service called directly, as auth/__init__.py exports it: an     *)
(* access token is created for a principal with a caller-chosen              *)
(* expires_delta and handed to the caller.                                   *)

MaxMinted == 2

ExpiresDeltas == {Never, 0, 1, JWT_ACCESS_TOKEN_EXPIRE_MINUTES * SecondsPerMinute}

IssueAccess(uid, expires_delta) ==
    LET user == users[uid]
        tok  == create_access_token(
                    [sub |-> uid, email |-> user.email, role |-> user.role],
                    expires_delta, now)
    IN  /\ Cardinality(issued) < MaxMinted
        /\ issued' = issued \cup {Issuance(tok, uid, user, now, expires_delta)}
        /\ resp' = Response("create_access_token", 200, "", None, uid, tok, None, None)
        /\ UNCHANGED <<users, admin_logs, now, ticks, revoked, request, csrf_tokens,
                       reset_tokens>>

CreateAccess == \E uid \in DOMAIN users, expires_delta \in ExpiresDeltas :
                    IssueAccess(uid, expires_delta)

NextToken == CreateAccess \/ Advance

SpecToken == Init /\ [][NextToken]_vars

----------------------------------------------------------------------------
(* The CSRF guard in front of the routes.  A browser sends one of two        *)
(* session cookies or none; as its CSRF token it sends nothing, a string     *)
(* that does not parse, a token the guard minted, such a token signed with   *)
(* another key, or such a token with the timestamp set to the present.       *)

Sessions == {[cookie |-> "S1"], [cookie |-> "S2"]}

MintedTokens == {m.token : m \in csrf_tokens}

CsrfPresentable ==
    MintedTokens
        \cup {[tok EXCEPT !.signature.key = AttackerKey] : tok \in MintedTokens}
        \cup {[tok EXCEPT !.timestamp = now] : tok \in MintedTokens}
        \cup {Unparsable, None}

\* What a POST can carry besides: the csrf_token field of its JSON body need
\* not be a string.
CsrfPostable == CsrfPresentable \cup {NotAString}

\* The JSON body of a request: the fields the routes of the model read.
Body(email, password, role, token) ==
    [email |-> email, password |-> password, role |-> role,
     refresh_token |-> token]

NoBody == Body(0, "", "", None)

Through(method, path, session_id, csrf_token, credentials, body) ==
    /\ dispatch(Request(method, path, session_id, csrf_token, credentials, NoUid, now),
                body)
    /\ request' = Request(method, path, session_id, csrf_token, credentials, NoUid, now)
    /\ UNCHANGED <<now, ticks, reset_tokens>>

\* POST /api/v1/auth/refresh, an exempt path, with a body that holds no JWT.
CsrfRefresh ==
    \E session_id \in Sessions \cup {None}, csrf_token \in {None, Unparsable} :
        Through("POST", "/api/v1/auth/refresh", session_id, csrf_token, None,
                Body(0, "", "", Malformed))

\* POST /api/v1/auth/register, a state-changing request to a guarded path.
CsrfRegister ==
    \E session_id \in Sessions \cup {None}, csrf_token \in CsrfPostable,
       role \in {"admin"} :
        Through("POST", "/api/v1/auth/register", session_id, csrf_token, None,
                Body(MaxUsers, "Str0ngP@ss1", role, None))

\* GET /api/v1/auth/me without credentials, which leaves a csrf_token cookie.
CsrfMe ==
    \E session_id \in Sessions \cup {None} :
        Through("GET", "/api/v1/auth/me", session_id, None, None, NoBody)

\* GET /health, and POST to a path that is exempt by its prefix only.
CsrfHealth ==
    \E session_id \in Sessions \cup {None}, csrf_token \in {None, Unparsable},
       r \in {<<"GET", "/health">>, <<"POST", "/healthz">>} :
        Through(r[1], r[2], session_id, csrf_token, None, NoBody)

\* DELETE /api/v1/auth/me: a state-changing verb the router has no route for.
CsrfDelete ==
    \E session_id \in Sessions \cup {None}, csrf_token \in CsrfPresentable :
        Through("DELETE", "/api/v1/auth/me", session_id, csrf_token, None, NoBody)

\* The guard reads the clock for the age of a token.
AdvanceCsrf == \E d \in {1, CSRF_MAX_AGE} : Tick(d)

\* The principal table as create_admin.py leaves it: a super admin, active by
\* the column default and not verified.
InitCsrf ==
    /\ Init
    /\ users[1].role = "super_admin" /\ users[1].is_active /\ ~users[1].is_verified

NextCsrf ==
    CsrfRefresh \/ CsrfRegister \/ CsrfMe \/ CsrfHealth \/ CsrfDelete \/ AdvanceCsrf

SpecCsrf == InitCsrf /\ [][NextCsrf]_vars

----------------------------------------------------------------------------
(* The authorization gate: logins that hand out tokens, the clock, and the   *)
(* gated routes called with whatever a client can present.                   *)

\* The gate reads the clock for the expiry of access tokens only.
AdvanceGate ==
    \E d \in {1, JWT_ACCESS_TOKEN_EXPIRE_MINUTES * SecondsPerMinute} : Tick(d)

NextGate ==
    \/ Login \/ AdvanceGate
    \/ Me \/ AdminStats \/ AdminLogs \/ OwnedResource

SpecGate == Init /\ [][NextGate]_vars

----------------------------------------------------------------------------
(* The audit log: the operations of the model that reach log_action, for a   *)
(* seeded principal that is active and verified.                             *)

InitAudit == Init /\ users[1].is_active /\ users[1].is_verified

NextAudit == Login \/ Logout \/ UpdateSystemSettings \/ LogAdminAction

SpecAudit == InitAudit /\ [][NextAudit]_vars

----------------------------------------------------------------------------
(* A login in flight next to refresh and logout requests.  The clock moves   *)
(* between requests.                                                         *)

LoginBegin == \E email \in Emails :
        /\ login_user_begin(email, SeedPassword)
        /\ UNCHANGED <<now, ticks, csrf_tokens, reset_tokens>>

LoginCommit == login_user_commit /\ UNCHANGED <<now, ticks, csrf_tokens, reset_tokens>>

LoginRespond == login_user_respond /\ UNCHANGED <<now, ticks, csrf_tokens, reset_tokens>>

LoginDropped == login_user_dropped /\ UNCHANGED <<now, ticks, csrf_tokens, reset_tokens>>

AdvanceAtomic == ~InFlightAt({"logged", "committed"}) /\ Tick(1)

NextAtomic ==
    LoginBegin \/ LoginCommit \/ LoginRespond \/ LoginDropped
        \/ Refresh \/ Logout \/ AdvanceAtomic

SpecAtomic == InitAudit /\ [][NextAtomic]_vars

----------------------------------------------------------------------------
(* Logout: a principal logs in and logs out, while the clock moves up to    *)
(* and past the expiry of its access token.                                  *)

NextLogout == Login \/ Logout \/ AdvanceGate

SpecLogout == InitAudit /\ [][NextLogout]_vars

----------------------------------------------------------------------------
(* The resolution of the principal on GET /auth/me, for principals of every  *)
(* role.                                                                     *)

NextResolve == Login \/ Me \/ AdvanceGate

SpecResolve == Init /\ [][NextResolve]_vars

----------------------------------------------------------------------------
(* A principal that is disabled after it has logged in.  No route of the     *)
(* program writes is_active = False to the end: registration does not copy   *)
(* the flag, and PUT /admin/users/{id} raises AttributeError on              *)
(* user.is_banned (routes/admin.py:827-831) before its assignment at line    *)
(* 838 and rolls back.  The column is written in the storage layer.          *)

deactivate_user(uid) ==
    /\ users[uid].is_active
    /\ users' = [users EXCEPT ![uid].is_active = FALSE]
    /\ resp' = ErrorResponse("storage", 0, "is_active = False", None, uid)
    /\ UNCHANGED <<admin_logs, issued, revoked>>

Deactivate == \E uid \in DOMAIN users :
        deactivate_user(uid) /\ UNCHANGED <<now, ticks, request, csrf_tokens, reset_tokens>>

NextInactive == Login \/ Refresh \/ Deactivate \/ AdvanceGate

SpecInactive == Init /\ [][NextInactive]_vars

----------------------------------------------------------------------------
(* Registration, called without the CSRF guard in front of it. *)

NextRegister == Register \/ Login

SpecRegister == Init /\ [][NextRegister]_vars

----------------------------------------------------------------------------
(* Password reset.  The reset token is to reach the owner of the account by  *)
(* e-mail; a client can present any token made so far and a string that is   *)
(* none.                                                                     *)

ResetPresentable == {m.token : m \in reset_tokens} \cup {[token_urlsafe |-> 0]}

RequestReset == \E email \in Emails :
        /\ request_password_reset(email)
        /\ UNCHANGED <<now, ticks, request, csrf_tokens>>

ConfirmReset == \E token \in ResetPresentable, new_password \in Passwords :
        /\ confirm_password_reset(token, new_password)
        /\ UNCHANGED <<now, ticks, request, csrf_tokens>>

AdvanceReset ==
    \E d \in {1, PasswordResetHours * SecondsPerHour - 1} : Tick(d)

NextReset == RequestReset \/ ConfirmReset \/ AdvanceReset

SpecReset == Init /\ [][NextReset]_vars

\* Password reset next to login and refresh.
NextResetRevoke == Login \/ Refresh \/ RequestReset \/ ConfirmReset \/ AdvanceReset

SpecResetRevoke == InitAudit /\ [][NextResetRevoke]_vars

----------------------------------------------------------------------------
(* The removal of a principal.  No route removes a users row (the "delete"   *)
(* of PUT /admin/users/{id} is a soft delete); the row is removed through    *)
(* the session or by the database, with what the mapping declares for its    *)
(* audit entries.                                                            *)

DeleteUser == \E uid \in DOMAIN users, how \in {"Session.delete", "ON DELETE"} :
        /\ users' = [u \in DOMAIN users \ {uid} |-> users[u]]
        /\ admin_logs' = delete_cascade(admin_logs, uid, how)
        /\ resp' = ErrorResponse("delete_user", 200, "", None, uid)
        /\ UNCHANGED <<issued, revoked, now, ticks, request, csrf_tokens,
                       reset_tokens>>

NextDelete == Login \/ Me \/ LogAdminAction \/ DeleteUser

SpecDelete == InitAudit /\ [][NextDelete]_vars

----------------------------------------------------------------------------
(* Properties *)

\* The tokens the token service is known to have created: those handed to
\* clients and the pair of the latest request.
KnownTokens ==
    IssuedTokens \cup
    (IF resp.token_data = None THEN {}
     ELSE {resp.token_data.access_token, resp.token_data.refresh_token})

KnownOfType(ty) == {tok \in KnownTokens : tok.claims.type = ty}

\* refresh would accept the token now.
Live(tok) == refresh_access_token(tok, users, now) # None

\* Signature and exp of the token are valid now.
Unexpired(tok) == jwt_decode(tok, now) # None

\* The latest request was a refresh for which the token service returned a pair.
RefreshReturnedPair == resp.route = "refresh" /\ resp.token_data # None

\* C1: refresh tokens are one-shot: once refresh(A) has returned a pair, a
\* further refresh(A) returns none, although A's signature and exp are valid.
C1_RefreshIsOneShot ==
    RefreshReturnedPair => ~Live(resp.presented)

\* C2: a successful refresh(A) rotates the persisted hash to the refresh token
\* it has just created, so that this new token is the one refresh accepts next.
C2_RefreshRotatesHash ==
    RefreshReturnedPair =>
        /\ verify_refresh_token(users[resp.uid], resp.token_data.refresh_token)
        /\ Live(resp.token_data.refresh_token)

\* At most one of the refresh tokens created for a principal is accepted.
AtMostOneLive ==
    \A u \in DOMAIN users :
        Cardinality({tok \in KnownOfType("refresh") :
                        tok.claims.sub = u /\ Live(tok)}) <= 1

\* C3: in every state and for every principal, at most one of the refresh
\* tokens created for that principal is accepted by refresh, and creating a
\* refresh token at login or at refresh replaces the persisted hash: after
\* either, the persisted hash is that of the token just created.
C3_AtMostOneLiveByReplacement ==
    /\ AtMostOneLive
    /\ (resp.route \in {"login", "refresh"} /\ resp.token_data # None) =>
          users[resp.uid].refresh_token_hash
              = pwd_hash(resp.token_data.refresh_token)

\* C4: from a successful logout or password change of a principal until its
\* next login, the persisted refresh hash and expiry are empty and refresh
\* rejects every refresh token issued to that principal.
C4_RevokedUntilLogin ==
    \A u \in revoked :
        /\ users[u].refresh_token_hash = None
        /\ users[u].refresh_token_expires = NoTime
        /\ \A tok \in IssuedOfType("refresh") : tok.claims.sub = u => ~Live(tok)

\* C4 witness: the latest request was a successful password change, and a
\* refresh token of that principal with a valid signature and exp is rejected.
C4_Witness ==
    /\ resp.route = "password/change" /\ resp.status = 200
    /\ resp.uid \in revoked
    /\ \E tok \in IssuedOfType("refresh") :
          tok.claims.sub = resp.uid /\ Unexpired(tok) /\ ~Live(tok)

\* C5: /auth/refresh called with the refresh token R of a successful login,
\* while R is the principal's current token, answers 200 with a pair whose
\* refresh token differs from R.
C5_RefreshAfterLoginGivesNewToken ==
    (RefreshReturnedPair /\ resp.presented \in IssuedOfType("refresh")) =>
        /\ resp.status = 200
        /\ resp.refresh_token # None
        /\ resp.refresh_token # resp.presented

\* C6: token kinds are never confused: no token created as an access token
\* verifies as "refresh" or is accepted by refresh, and no token created as a
\* refresh token verifies as "access" or resolves a principal at the gate.
C6_NoTypeConfusion ==
    /\ \A tok \in KnownOfType("access") :
          /\ verify_token(tok, "refresh", now) = None
          /\ ~Live(tok)
    /\ \A tok \in KnownOfType("refresh") :
          /\ verify_token(tok, "access", now) = None
          /\ get_token_payload(tok, now) = None
          /\ get_current_user(tok, users, admin_logs, now).status = 401

\* C6 witness: a refresh token that refresh accepts and an access token that
\* the gate accepts exist side by side, so only the type claim tells them apart.
C6_Witness ==
    /\ \E tok \in IssuedOfType("refresh") : Live(tok)
    /\ \E tok \in IssuedOfType("access") :
          get_current_user(tok, users, admin_logs, now).status = 200

\* C7: an access token issued to a principal verifies as "access" at every
\* time strictly before its exp, and its claims carry the principal's id and
\* the e-mail and role the principal had at issuance.
C7_AccessTokenVerifies ==
    \A r \in issued :
        (r.tok.claims.type = "access" /\ now < r.tok.claims.exp) =>
            LET payload == verify_token(r.tok, "access", now)
            IN  /\ payload # None
                /\ payload.sub = r.uid
                /\ payload.email = r.email
                /\ payload.role = r.role

\* C7 witness: an access token verified after its issuance second and before
\* its expiry.
C7_Witness ==
    \E r \in issued :
        /\ r.tok.claims.type = "access"
        /\ r.at < now /\ now < r.tok.claims.exp
        /\ verify_token(r.tok, "access", now) # None

\* C8: an access token issued with ttl = 0 is rejected by verify at every
\* time from its issuance on.
C8_ZeroTtlAlwaysRejected ==
    \A r \in issued :
        (r.ttl = 0 /\ now >= r.at) => verify_token(r.tok, "access", now) = None

\* C9: a refresh that fails answers without any token and leaves the
\* principal table (persisted hash and expiry included) as it was.
C9_FailedRefreshChangesNothing ==
    [][(resp' # resp /\ resp'.route = "refresh" /\ resp'.status # 200) =>
          /\ resp'.access_token = None
          /\ resp'.refresh_token = None
          /\ users' = users]_vars

\* C9 witness: a refresh was refused while the principal holds a persisted hash
\* and a refresh token with a valid signature and exp that the hash does not match.
C9_Witness ==
    /\ resp.route = "refresh" /\ resp.status = 401
    /\ \E u \in DOMAIN users : users[u].refresh_token_hash # None
    /\ \E tok \in IssuedOfType("refresh") : Unexpired(tok) /\ ~Live(tok)

\* C10: a login that fails on the credentials (unknown e-mail or wrong
\* password) is always answered 401 with the one generic message.  403 is the
\* answer to the correct password of a disabled account and is not covered.
C10_LoginFailureUniform ==
    (resp.route = "login" /\ resp.status \notin {200, 403}) =>
        /\ resp.status = 401
        /\ resp.detail = "Invalid email or password"

----------------------------------------------------------------------------
(* The authorization gate, C11..C14.  The classification of a request is     *)
(* written from the request and the principal table alone.                   *)

GateRoutes == {"me", "admin/stats", "admin/logs", "owned"}

\* The request carries no bearer token that names a principal: absent, no
\* JWT, foreign signature, not an access token, expired, or subject unknown.
Unauthenticated(c) ==
    \/ c = None
    \/ c = Malformed
    \/ c.sig # ServerKey
    \/ c.claims.type # "access"
    \/ c.claims.exp <= now
    \/ c.claims.sub \notin DOMAIN users

\* activePrincipal as the specification states it.
PassesActive(u) == u.is_active /\ (u.is_verified \/ u.role = "guest")

\* The predicate the gate of a route asks of the principal that calls it.
PassesGateOf(route, uid, owner) ==
    LET u == users[uid]
    IN  /\ PassesActive(u)
        /\ route = "admin/stats" => u.role \in {"admin", "super_admin"}
        /\ route = "admin/logs"  => u.role = "super_admin"
        /\ route = "owned"       => (uid = owner \/ u.role \in {"admin", "super_admin"})

\* The latest answer is that of a gated route, and the clock has not moved
\* since the request.
GatedRequest == resp.route \in GateRoutes /\ request.at = now

AnsweredBy(route) == GatedRequest /\ resp.route = route

Caller == request.credentials.claims.sub

\* The body of the route ran: it answered 200, or gave its own failure.
HandlerRan ==
    resp.status = 200 \/ resp.detail = "Failed to retrieve admin statistics"

\* C11: the gate never conflates 401 and 403: a request without a bearer
\* token that names a principal is answered 401, and a request whose principal
\* fails the active, verified, role or ownership predicate of the route is
\* answered 403.
C11_UnauthenticatedVsForbidden ==
    GatedRequest =>
        IF Unauthenticated(request.credentials)
        THEN resp.status = 401
        ELSE ~PassesGateOf(resp.route, Caller, request.resource_user_id)
                => resp.status = 403

\* C12: activePrincipal accepts an authenticated principal exactly when it is
\* active and (verified or a guest), and answers 403 to every other one.
C12_ActivePrincipalExact ==
    (AnsweredBy("me") /\ ~Unauthenticated(request.credentials)) =>
        IF PassesActive(users[Caller])
        THEN resp.status = 200
        ELSE resp.status = 403

\* C13: a guest that is not verified and calls a route gated by
\* activePrincipal is answered 403.
C13_UnverifiedGuestForbidden ==
    (/\ AnsweredBy("me")
     /\ ~Unauthenticated(request.credentials)
     /\ users[Caller].role = "guest"
     /\ ~users[Caller].is_verified) => resp.status = 403

\* The role gates only narrow: the body of an admin route runs only for an
\* active, verified-or-guest admin or super admin, that of a super-admin route
\* only for such a super admin.
RoleGatesNarrow ==
    (GatedRequest /\ resp.route \in {"admin/stats", "admin/logs"} /\ HandlerRan) =>
        /\ ~Unauthenticated(request.credentials)
        /\ PassesGateOf(resp.route, Caller, NoUid)

\* C14: the role gates only narrow, and every principal they do not admit (a
\* customer on an admin route, an admin on a super-admin route) is answered
\* 403 without the body of the route being run.
C14_RoleGatesNarrowWith403 ==
    /\ RoleGatesNarrow
    /\ (/\ GatedRequest
        /\ resp.route \in {"admin/stats", "admin/logs"}
        /\ ~Unauthenticated(request.credentials)
        /\ ~PassesGateOf(resp.route, Caller, NoUid))
           => (resp.status = 403 /\ ~HandlerRan)

----------------------------------------------------------------------------
(* The CSRF guard, C15..C18 *)

\* The session ids a request can come with: the cookies of the browsers and
\* the ids the guard made up for requests without a cookie.
KnownSessions == Sessions \cup {m.session_id : m \in csrf_tokens}

\* The latest request, answered at the present clock.
JustAnswered == request.method # "" /\ request.at = now

UnsafeMethods == {"POST", "PUT", "PATCH", "DELETE"}

\* C15: a CSRF token is bound to the session it was minted for: at every
\* time, presented together with any other session id it fails verification.
C15_CsrfTokenBoundToSession ==
    \A m \in csrf_tokens : \A s \in KnownSessions :
        s # m.session_id => ~_verify_csrf_token(m.token, s, now)

\* C15 witness: a token that still verifies for its own session was sent with
\* the cookie of another session, and the guard refused the request.
C15_Witness ==
    \E m \in csrf_tokens :
        /\ _verify_csrf_token(m.token, m.session_id, now)
        /\ JustAnswered
        /\ request.csrf_token = m.token
        /\ request.session_id \in Sessions /\ request.session_id # m.session_id
        /\ resp.route = "csrf"

\* C16: a minted token presented with its own session is rejected when its
\* timestamp lies more than 300 seconds before the verification time, and
\* accepted when its age is at most 300 seconds.
C16_CsrfTokenAgeWindow ==
    \A m \in csrf_tokens :
        IF now - m.token.timestamp > CSRF_MAX_AGE
        THEN ~_verify_csrf_token(m.token, m.session_id, now)
        ELSE _verify_csrf_token(m.token, m.session_id, now)

\* C16 witness: a state-changing request came with a token exactly 300 seconds
\* old and the cookie of the token's session, and passed the guard.
C16_Witness ==
    \E m \in csrf_tokens :
        /\ now - m.token.timestamp = CSRF_MAX_AGE
        /\ JustAnswered
        /\ request.method \in UnsafeMethods /\ ~_is_exempt_path(request.path)
        /\ request.csrf_token = m.token /\ request.session_id = m.session_id
        /\ resp.route # "csrf"

\* C17: no GET request and no request to an exempt path, whatever its verb
\* and whatever token it carries, is rejected by the CSRF guard: it reaches
\* the next handler.
C17_SafeAndExemptPass ==
    (JustAnswered /\ (request.method = "GET" \/ _is_exempt_path(request.path)))
        => resp.route # "csrf"

\* C17 witness: a POST without any CSRF token to the exempt refresh path was
\* answered by the refresh route.
C17_Witness ==
    /\ JustAnswered
    /\ request.method = "POST" /\ request.path = "/api/v1/auth/refresh"
    /\ request.csrf_token = None
    /\ resp.route = "refresh"

\* The request's CSRF token is missing, does not parse, is signed with another
\* key or for another timestamp, is bound to another session than the
\* request's, or is older than 300 seconds at time t.
BadCsrf(req, t) ==
    \/ req.csrf_token = None
    \/ req.csrf_token = Unparsable
    \/ req.csrf_token = NotAString
    \/ req.csrf_token.signature.key # CsrfKey
    \/ req.csrf_token.signature.message[1] # req.session_id
    \/ req.csrf_token.signature.message[2] # req.csrf_token.timestamp
    \/ t - req.csrf_token.timestamp > CSRF_MAX_AGE

Guarded(req) == req.method \in UnsafeMethods /\ ~_is_exempt_path(req.path)

\* C18: a POST, PUT, PATCH or DELETE to a non-exempt path whose CSRF token is
\* missing, malformed, wrongly signed, bound to another session or expired is
\* answered 403 by the guard, and the step changes neither the principals,
\* the tokens handed out nor the audit log.
C18_CsrfFailureIsFatal ==
    [][(/\ request'.method # "" /\ request'.at = now'
        /\ Guarded(request') /\ BadCsrf(request', now'))
          => /\ resp'.route = "csrf" /\ resp'.status = 403
             /\ users' = users /\ issued' = issued
             /\ admin_logs' = admin_logs /\ revoked' = revoked]_vars

\* Whatever the guard answers to such a request, the route behind it does not
\* run: the step changes neither the principals, the tokens handed out nor
\* the audit log.
CsrfFailureChangesNothing ==
    [][(/\ request'.method # "" /\ request'.at = now'
        /\ Guarded(request') /\ BadCsrf(request', now'))
          => /\ resp'.route = "csrf" /\ resp'.status \in {403, 500}
             /\ users' = users /\ issued' = issued
             /\ admin_logs' = admin_logs /\ revoked' = revoked]_vars

\* A registration that came with a token minted for another session was
\* answered 403 by the guard.
CsrfGuardRejects ==
    /\ JustAnswered
    /\ request.path = "/api/v1/auth/register"
    /\ request.csrf_token \in MintedTokens
    /\ BadCsrf(request, now)
    /\ resp.route = "csrf" /\ resp.status = 403

\* A registration that came with a token of its own session passed the guard.
CsrfGuardPasses ==
    /\ JustAnswered
    /\ request.path = "/api/v1/auth/register"
    /\ resp.route = "register" /\ resp.status = 201

----------------------------------------------------------------------------
(* The audit log, C19 and C20 *)

\* The risk level the entry point is to give an action: critical for role
\* changes, configuration changes and security alerts, low for uploads and
\* login attempts, medium for an action the risk table does not list.
RiskOfAction(action) ==
    IF action \in {"user_role_changed", "system_config_changed", "security_alert"}
    THEN "critical"
    ELSE IF action \in {"gallery_image_uploaded", "login_attempt"}
    THEN "low"
    ELSE IF action \notin (risk_levels.low \cup risk_levels.medium
                              \cup risk_levels.high \cup risk_levels.critical)
    THEN "medium"
    ELSE risk_level_of(action)

\* Every entry that was written carries the risk level of its action.
WrittenEntriesFollowTable ==
    \A i \in DOMAIN admin_logs :
        admin_logs[i].risk_level = RiskOfAction(admin_logs[i].action)

\* The log holds a critical, a low and a medium-by-default entry.
RiskLevelsWritten ==
    /\ \E i \in DOMAIN admin_logs :
          admin_logs[i].action = "system_config_changed"
    /\ \E i \in DOMAIN admin_logs :
          admin_logs[i].action = "login_attempt"

DefaultRiskWritten ==
    \E i \in DOMAIN admin_logs :
        admin_logs[i].action = "user_created" /\ admin_logs[i].risk_level = "medium"

\* The answer r is that of a login with a wrong password for the account of
\* an administrator: the one call of the entry point that passes a severity
\* hint (risk_level = "low").
FailedAdminLogin(r, db) ==
    /\ r.route = "login" /\ r.uid # NoUid
    /\ is_admin(db[r.uid])
    /\ r.status \notin {200, 403}

\* C19: the risk level of an audit entry is a fixed function of its action,
\* chosen by the entry point and never by the caller: every entry carries the
\* level of its action, and a record call that comes with a severity hint
\* still yields its entry, with the level of the action (a login attempt:
\* low).
C19_RiskLevelFixedByAction ==
    [][/\ \A i \in DOMAIN admin_logs' :
             admin_logs'[i].risk_level = RiskOfAction(admin_logs'[i].action)
       /\ FailedAdminLogin(resp', users')
             => /\ Len(admin_logs') = Len(admin_logs) + 1
                /\ admin_logs'[Len(admin_logs')].action = "login_attempt"
                /\ admin_logs'[Len(admin_logs')].risk_level = "low"]_vars

\* C20: the audit log is append-only: every step leaves the entries written
\* so far in place, in order and with all their fields, and at most adds
\* entries after them.
C20_AuditLogAppendOnly ==
    [][/\ Len(admin_logs') >= Len(admin_logs)
       /\ SubSeq(admin_logs', 1, Len(admin_logs)) = admin_logs]_vars

\* C20 witness: a second entry of another action was written after the first,
\* which is still there.
C20_Witness ==
    /\ Len(admin_logs) >= 2
    /\ admin_logs[1].action # admin_logs[2].action

----------------------------------------------------------------------------
(* The removal of a principal, C21 *)

----------------------------------------------------------------------------
(* Password reset, C22 and C30 *)

ResetWindow == PasswordResetHours * SecondsPerHour

\* The step answers a confirm of a password reset.
ConfirmAnswered == resp'.route = "password-reset/confirm" /\ now' = now

\* C22: a reset token is accepted by /password-reset/confirm at most once and
\* only within 24 hours of its request: a confirm that succeeds presents a
\* token that was made at most 24 hours ago and that no confirm has accepted
\* before, and a confirm with a token that was accepted before or is older
\* than 24 hours is rejected and leaves every password unchanged.
C22_ResetTokenSingleUseTimeBoxed ==
    [][ConfirmAnswered =>
          /\ resp'.status = 200 =>
                \E m \in reset_tokens :
                    /\ m.token = resp'.presented
                    /\ ~m.used
                    /\ now - m.at <= ResetWindow
          /\ (\A m \in reset_tokens :
                  m.token = resp'.presented => (m.used \/ now - m.at > ResetWindow))
                => /\ resp'.status # 200
                   /\ \A u \in DOMAIN users :
                         users'[u].password_hash = users[u].password_hash]_vars

\* C22 witness: a token that a confirm accepted was presented again within its
\* 24 hours, with a password the policy admits, and was rejected.
C22_Witness ==
    \E m \in reset_tokens :
        /\ m.used
        /\ now - m.at < ResetWindow
        /\ resp.route = "password-reset/confirm"
        /\ resp.presented = m.token
        /\ resp.detail = "Invalid or expired reset token"
        /\ users[m.uid].password_hash # pwd_hash(SeedPassword)

\* A token older than 24 hours, never accepted, was rejected.
ResetTokenExpired ==
    \E m \in reset_tokens :
        /\ ~m.used
        /\ now - m.at >= ResetWindow
        /\ resp.route = "password-reset/confirm"
        /\ resp.presented = m.token
        /\ resp.detail = "Invalid or expired reset token"
        /\ users[m.uid].password_reset_token = m.token

----------------------------------------------------------------------------
(* Registration, C23 and C29 *)

\* The password policy: at least 8 characters, a lowercase letter, an
\* uppercase letter and a digit, and not in the denylist of common passwords.
PolicyOK(password) ==
    LET p == password_shape(password)
    IN  /\ p.len >= 8 /\ p.lower /\ p.upper /\ p.digit
        /\ p.lowered \notin common_passwords

EmailRegistered(db, email) == \E u \in DOMAIN db : db[u].email = email

\* C23: registration validates before it writes: a register request whose
\* password violates the policy is rejected as a validation error (400 or
\* 422), one whose e-mail is already registered is rejected with 409, both
\* leave the principal store unchanged, and a principal is created only when
\* both checks pass.
C23_RegisterValidatesBeforeWrite ==
    [][resp'.route = "register" =>
          LET body == resp'.presented
          IN  /\ ~PolicyOK(body.password)
                    => resp'.status \in {400, 422} /\ users' = users
              /\ (PolicyOK(body.password) /\ EmailRegistered(users, body.email))
                    => resp'.status = 409 /\ users' = users
              /\ users' # users
                    => /\ PolicyOK(body.password)
                       /\ ~EmailRegistered(users, body.email)
                       /\ resp'.status = 201
                       /\ \E uid \in DOMAIN users' \ DOMAIN users :
                             /\ DOMAIN users' = DOMAIN users \cup {uid}
                             /\ users'[uid].email = body.email
                             /\ \A u \in DOMAIN users : users'[u] = users[u]]_vars

\* C23 witness: a registration with a new e-mail and a password of the denylist
\* that has the required length and characters was rejected in the handler,
\* and the store holds no principal of that e-mail.
C23_Witness ==
    /\ resp.route = "register"
    /\ resp.status = 400
    /\ is_password_compromised(resp.presented.password)
    /\ ~EmailRegistered(users, resp.presented.email)

\* A registration with an e-mail that is taken was answered 409.
RegisterConflict ==
    /\ resp.route = "register" /\ resp.status = 409
    /\ Cardinality(DOMAIN users) = 2

----------------------------------------------------------------------------
(* Rotation under failure, C24 *)

\* C24: rotation is atomic from the caller's side: the stored hash and expiry
\* are never half-written (one set, the other empty), and when a login ends
\* without delivering its pair, every refresh token in a client's hands that
\* was accepted when the request arrived is still accepted, unless the
\* principal logged out meanwhile.
C24_RotationAtomicForCaller ==
    [][/\ \A u \in DOMAIN users' :
             (users'[u].refresh_token_hash = None)
                <=> (users'[u].refresh_token_expires = NoTime)
       /\ (InFlightAt({"logged", "committed"}) /\ request'.pc = "dropped"
             /\ request.uid \notin revoked')
             => \A tok \in request.held :
                   refresh_access_token(tok, users', now') # None]_vars

\* The two refresh columns are set together and emptied together.
RefreshColumnsTogether ==
    \A u \in DOMAIN users :
        (users[u].refresh_token_hash = None)
           <=> (users[u].refresh_token_expires = NoTime)

----------------------------------------------------------------------------
(* Logout and access tokens, C25 *)

RefreshColumns == {"refresh_token_hash", "refresh_token_expires"}

----------------------------------------------------------------------------
(* The audit entry of the gate, C26 *)

\* The principal a bearer credential names: the subject of an access token
\* that verifies, when a row with that id exists.
Resolves(credentials, db, t) ==
    /\ credentials # None
    /\ verify_token(credentials, "access", t) # None
    /\ verify_token(credentials, "access", t).sub \in DOMAIN db

MeAnswered ==
    /\ resp'.route = "me" /\ now' = now
    /\ request'.path = "/api/v1/auth/me" /\ request'.at = now

\* C26: a request whose credential resolves a principal of role admin or
\* super_admin appends exactly one entry, login_attempt with that principal as
\* admin_id and risk level "low"; a credential that resolves a guest or a
\* customer, or none, appends nothing; and the answer names the principal of
\* the credential whether or not an entry was written.
C26_GateLogsAdminResolution ==
    [][MeAnswered =>
          LET credentials == request'.credentials
          IN  IF Resolves(credentials, users, now)
              THEN LET sub == verify_token(credentials, "access", now).sub
                   IN  /\ resp'.uid = sub
                       /\ IF users[sub].role \in {"admin", "super_admin"}
                          THEN /\ Len(admin_logs') = Len(admin_logs) + 1
                               /\ SubSeq(admin_logs', 1, Len(admin_logs)) = admin_logs
                               /\ admin_logs'[Len(admin_logs')].action = "login_attempt"
                               /\ admin_logs'[Len(admin_logs')].admin_id = sub
                               /\ admin_logs'[Len(admin_logs')].risk_level = "low"
                          ELSE admin_logs' = admin_logs
              ELSE /\ admin_logs' = admin_logs
                   /\ resp'.status = 401]_vars

\* C26 witness: the gate has resolved an admin principal and its entry is the
\* newest of the log.
C26_Witness ==
    /\ resp.route = "me" /\ request.at = now
    /\ Resolves(request.credentials, users, now)
    /\ users[resp.uid].role \in {"admin", "super_admin"}
    /\ Len(admin_logs) > 0
    /\ admin_logs[Len(admin_logs)].action = "login_attempt"
    /\ admin_logs[Len(admin_logs)].admin_id = resp.uid

\* A customer has been resolved and the log is empty.
CustomerResolvedUnlogged ==
    /\ resp.route = "me" /\ resp.status = 200 /\ request.at = now
    /\ users[resp.uid].role = "customer"
    /\ admin_logs = <<>>

----------------------------------------------------------------------------
(* The double-submit round trip, C27 *)

\* The session_id cookie a client holds after the GET that minted m: the
\* cookie it sent with that GET, or none when the guard made the id up, since
\* the guard sets the session_id cookie on exempt paths only.
CookieHeldFor(m) == IF m.session_id \in Sessions THEN m.session_id ELSE None

\* The latest request is a state-changing request to a guarded path that
\* returns the token of m, minted at most 300 seconds ago, with the cookies
\* the client of m holds.
RoundTrip(m) ==
    /\ now' = now
    /\ request'.at = now
    /\ request'.method \in UnsafeMethods /\ ~_is_exempt_path(request'.path)
    /\ request'.csrf_token = m.token
    /\ now - m.token.timestamp <= CSRF_MAX_AGE
    /\ request'.session_id = CookieHeldFor(m)

\* C27: the double-submit round trip succeeds for every client: a
\* state-changing request to a guarded path that carries the csrf_token cookie
\* of a GET made at most 300 seconds earlier, and the cookies the server has
\* set for the client, passes the guard, also when the client held no
\* session_id cookie at the GET.
C27_CsrfRoundTripSucceeds ==
    [][\A m \in csrf_tokens : RoundTrip(m) => resp'.route # "csrf"]_vars

\* The round trip of a client that sent a session_id cookie with its GET.
CsrfRoundTripWithSession ==
    [][\A m \in csrf_tokens :
          (RoundTrip(m) /\ m.session_id \in Sessions) => resp'.route # "csrf"]_vars

\* A client without session_id cookie returned the token of its GET and was
\* refused.
CsrfRoundTripRefused ==
    \E m \in csrf_tokens :
        /\ m.session_id \notin Sessions
        /\ JustAnswered
        /\ request.method \in UnsafeMethods /\ ~_is_exempt_path(request.path)
        /\ request.csrf_token = m.token /\ request.session_id = None
        /\ resp.route = "csrf" /\ resp.detail = "CSRF token invalid or expired"

----------------------------------------------------------------------------
(* Inactive principals, C28 *)

\* A request was just answered with a token pair, or with one of the two.
DeliversTokens ==
    /\ resp' # resp
    /\ resp'.access_token # None \/ resp'.refresh_token # None

InactiveLoginRefused ==
    [][/\ (DeliversTokens /\ resp'.uid \in DOMAIN users) => users[resp'.uid].is_active
       /\ (resp' # resp /\ resp'.route = "login" /\ resp'.uid \in DOMAIN users
             /\ ~users[resp'.uid].is_active)
             => resp'.status \in {401, 403, 500}]_vars

\* The refresh route has answered 500 to an inactive principal whose refresh
\* token matches the stored hash, after refresh_access_token made a pair.
InactiveRefreshMadePair ==
    /\ resp.route = "refresh" /\ resp.status = 500
    /\ resp.uid \in DOMAIN users /\ ~users[resp.uid].is_active
    /\ resp.token_data # None
    /\ refresh_access_token(resp.presented, users, now) # None

----------------------------------------------------------------------------
(* Registration and roles, C29 *)

AboveCustomer == {"admin", "super_admin"}

AdminOnlyByRegistration ==
    [][((\A u \in DOMAIN users : users[u].role \notin AboveCustomer)
          /\ \E u \in DOMAIN users' : users'[u].role \in AboveCustomer)
         => /\ resp'.route = "register" /\ resp'.status = 201
            /\ resp'.presented.role \in AboveCustomer]_vars

\* An anonymous registration that named the role super_admin was answered 201
\* in a store that held a customer only, and that principal has logged in.
RegisteredSuperAdmin ==
    /\ users[1].role = "customer"
    /\ \E u \in DOMAIN users :
          /\ users[u].role = "super_admin"
          /\ \E r \in issued : r.uid = u /\ r.role = "super_admin"

----------------------------------------------------------------------------
(* Password reset and the refresh credential, C30 *)

\* The principal a reset token was made for.
ResetPrincipal(token) ==
    {m.uid : m \in {x \in reset_tokens : x.token = token}}

\* C30: a /password-reset/confirm that succeeds for a principal leaves that
\* principal's refresh hash and expiry empty, and every refresh token issued
\* to it before is rejected by refresh from then on.
C30_ResetRevokesRefresh ==
    [][(ConfirmAnswered /\ resp'.status = 200) =>
          \A p \in ResetPrincipal(resp'.presented) :
              /\ users'[p].refresh_token_hash = None
              /\ users'[p].refresh_token_expires = NoTime
              /\ \A r \in issued :
                    (r.uid = p /\ r.tok.claims.type = "refresh")
                       => refresh_access_token(r.tok, users', now') = None]_vars

\* What the confirm does write: the password and the two reset columns of
\* the principal, and nothing else of the principal table.
ResetKeepsRefreshColumns ==
    [][(ConfirmAnswered /\ resp'.status = 200) =>
          \A u \in DOMAIN users :
              /\ users'[u].refresh_token_hash = users[u].refresh_token_hash
              /\ users'[u].refresh_token_expires = users[u].refresh_token_expires]_vars

\* After a reset that succeeded, a refresh token of an earlier login is still
\* accepted by refresh_access_token.
RefreshSurvivesReset ==
    /\ resp.route = "password-reset/confirm" /\ resp.status = 200
    /\ \E r \in issued :
          /\ r.tok.claims.type = "refresh"
          /\ r.uid \in ResetPrincipal(resp.presented)
          /\ users[r.uid].password_hash # pwd_hash(SeedPassword)
          /\ refresh_access_token(r.tok, users, now) # None

====
